---------------------------- MODULE Spec2Model ----------------------------
(***************************************************************************)
(* A model of src/src/Parser.ts (use-atom-feed): the Atom feed parser.     *)
(*                                                                         *)
(* Strings are sequences of lexemes.  A lexeme is one of                    *)
(*   "a"                      ordinary character data                      *)
(*   "<script>", "</script>"  the tags of an executable script construct   *)
(*   "<br>", "<div>", "</div>" harmless markup                             *)
(*   "&lt;script&gt;", ...    the same tags, entity-escaped                *)
(*   "1", " ", "x"            characters of a numeric attribute            *)
(*   "2020-01-01", ...        a whole ISO date                             *)
(*   "text", "html", ...      a whole attribute keyword                    *)
(* The DOM is a tree of records: a text node carries `data` (its decoded   *)
(* characters), an element carries nodeName, attrs and childNodes.         *)
(* JavaScript values are tagged records (field t): undefined, null, a      *)
(* string (field s, its lexemes), a number (NaN or n), a Date (its time    *)
(* value), an Error.  The DOM operators work on the bare sequences.        *)
(***************************************************************************)
EXTENDS Integers, Sequences, FiniteSets, TLC

VARIABLES
  pc,    \* "idle" before the call, "returned" or "thrown" after it
  call,  \* the function called and its arguments
  ret    \* what the call returned, or the Error it threw

vars == <<pc, call, ret>>

---------------------------------------------------------------------------
(* Bounds *)

\* most child nodes of a generated piece of element content
MaxNodes == 2
\* most <entry> children of a generated feed
MaxEntries == 3
\* most children of a generated parent in an element lookup
MaxKids == 3
\* longest generated numeric attribute value
MaxAttrLen == 2

---------------------------------------------------------------------------
(* JavaScript values *)

undefined == [t |-> "undefined"]
null == [t |-> "null"]
String(s) == [t |-> "string", s |-> s]
NaN == [t |-> "number", nan |-> TRUE]
Num(n) == [t |-> "number", nan |-> FALSE, n |-> n]
Error(msg) == [t |-> "Error", message |-> msg]

\* a ?? b
Coalesce(a, b) == IF a = undefined \/ a = null THEN b ELSE a

RECURSIVE Concat(_)
\* the concatenation of a sequence of sequences
Concat(ss) == IF ss = <<>> THEN <<>> ELSE Head(ss) \o Concat(Tail(ss))

\* all sequences over S of length at most n
SeqsUpTo(S, n) == UNION {[1..k -> S] : k \in 0..n}

---------------------------------------------------------------------------
(* The DOM the parser reads *)

NoAttrs == <<>>
Text(d) == [nodeName |-> "#text", data |-> d]
Element(name, attrs, childNodes) ==
  [nodeName |-> name, attrs |-> attrs, childNodes |-> childNodes]
IsElement(node) == node.nodeName # "#text"

RECURSIVE Descendants(_)
\* every element below parent, in document order (getElementsByTagName('*'))
Descendants(parent) ==
  Concat([i \in 1..Len(parent.childNodes) |->
            IF IsElement(parent.childNodes[i])
            THEN <<parent.childNodes[i]>> \o Descendants(parent.childNodes[i])
            ELSE <<>>])

\* ParentNode.children: the element children, in document order
children(parent) == SelectSeq(parent.childNodes, IsElement)

\* Element.getAttribute
getAttribute(element, attributeName) ==
  IF attributeName \in DOMAIN element.attrs
  THEN String(element.attrs[attributeName]) ELSE null

RECURSIVE textContent(_)
\* Node.textContent: the character data of all text descendants, decoded
textContent(node) ==
  IF ~IsElement(node) THEN node.data
  ELSE Concat([i \in 1..Len(node.childNodes) |-> textContent(node.childNodes[i])])

\* the serializer writes character data with its markup characters escaped
EscapeLexeme(c) ==
  CASE c = "<script>" -> "&lt;script&gt;"
    [] c = "</script>" -> "&lt;/script&gt;"
    [] c = "<br>" -> "&lt;br&gt;"
    [] OTHER -> c

RECURSIVE innerHTML(_)
\* Element.innerHTML: the serialization of the child nodes
innerHTML(element) ==
  LET serialize(node) ==
        IF ~IsElement(node) THEN [i \in 1..Len(node.data) |-> EscapeLexeme(node.data[i])]
        ELSE IF node.nodeName = "br" THEN <<"<br>">>
        ELSE <<"<" \o node.nodeName \o ">">> \o innerHTML(node)
               \o <<"</" \o node.nodeName \o ">">>
  IN Concat([i \in 1..Len(element.childNodes) |-> serialize(element.childNodes[i])])

RECURSIVE SanitizeFrom(_, _)
SanitizeFrom(s, inScript) ==
  IF s = <<>> THEN <<>>
  ELSE LET c == Head(s) IN
       IF inScript THEN SanitizeFrom(Tail(s), c # "</script>")
       ELSE IF c = "<script>" THEN SanitizeFrom(Tail(s), TRUE)
       ELSE IF c = "</script>" THEN SanitizeFrom(Tail(s), FALSE)
       ELSE <<c>> \o SanitizeFrom(Tail(s), FALSE)

\* DOMPurify.sanitize: the markup parsed as HTML and written back without any
\* script element (its content included, to the end when it is never closed)
\* and without stray script end tags; escaped text and harmless markup stay
DOMPurify_sanitize(dirty) == SanitizeFrom(dirty, FALSE)

---------------------------------------------------------------------------
(* Conversions of the language *)

\* Date.parse on the lexemes of the model: a string is a date when it is one
\* ISO date, and holds none (NaN) otherwise.  Time values are counted in days
\* since the epoch, which keeps their order and their differences' signs
DateParse(s) ==
  IF Len(s) # 1 THEN NaN
  ELSE CASE s[1] = "1970-01-01" -> Num(0)
         [] s[1] = "2020-01-01" -> Num(18262)
         [] s[1] = "2021-01-01" -> Num(18628)
         [] s[1] = "2022-01-01" -> Num(18993)
         [] OTHER -> NaN

\* new Date(value): a number is the time value itself, a string is parsed
Date(value) ==
  [t |-> "Date", time |-> IF value.t = "number" THEN value ELSE DateParse(value.s)]

\* Date.prototype.valueOf
valueOf(date) == date.time

\* x - y on numbers
Minus(x, y) == IF x.nan \/ y.nan THEN NaN ELSE Num(x.n - y.n)

IsWhiteSpace(c) == c = " "
IsDigit(c) == c \in {"0", "1", "2"}
DigitValue(c) == CASE c = "0" -> 0 [] c = "1" -> 1 [] c = "2" -> 2

RECURSIVE TrimLeft(_)
TrimLeft(s) == IF s # <<>> /\ IsWhiteSpace(Head(s)) THEN TrimLeft(Tail(s)) ELSE s

RECURSIVE TrimRight(_)
TrimRight(s) ==
  IF s # <<>> /\ IsWhiteSpace(s[Len(s)]) THEN TrimRight(SubSeq(s, 1, Len(s) - 1)) ELSE s

RECURSIVE DecimalValue(_)
DecimalValue(s) ==
  IF s = <<>> THEN 0 ELSE 10 * DecimalValue(SubSeq(s, 1, Len(s) - 1)) + DigitValue(s[Len(s)])

\* Number(value): undefined is NaN; a string is trimmed of white space, and
\* is then 0 when empty, its value when a decimal literal, NaN otherwise
Number(value) ==
  IF value = undefined THEN NaN
  ELSE LET str == TrimRight(TrimLeft(value.s)) IN
       IF str = <<>> THEN Num(0)
       ELSE IF \A i \in 1..Len(str) : IsDigit(str[i]) THEN Num(DecimalValue(str))
       ELSE NaN

---------------------------------------------------------------------------
(* Array.prototype.sort *)

\* the comparator parseAtomFeed sorts its entries with
compareEntries(a, b) == Minus(valueOf(b.updated), valueOf(a.updated))

\* SortCompare: the comparator's result as a sign, NaN counting as +0
SortCompare(x, y) ==
  LET v == compareEntries(x, y) IN
  IF v.nan THEN 0 ELSE IF v.n < 0 THEN -1 ELSE IF v.n > 0 THEN 1 ELSE 0

\* ECMAScript's "consistent comparator" for the values of arr
ConsistentComparator(arr) ==
  LET I == 1..Len(arr)
      cf(i, j) == SortCompare(arr[i], arr[j])
  IN /\ \A i \in I : cf(i, i) = 0
     /\ \A i, j \in I : /\ cf(i, j) = 0 => cf(j, i) = 0
                        /\ cf(i, j) < 0 => cf(j, i) > 0
     /\ \A i, j, k \in I :
          /\ cf(i, j) = 0 /\ cf(j, k) = 0 => cf(i, k) = 0
          /\ cf(i, j) < 0 /\ cf(j, k) < 0 => cf(i, k) < 0
          /\ cf(i, j) > 0 /\ cf(j, k) > 0 => cf(i, k) > 0

RECURSIVE InsertInOrder(_, _)
\* x put into the sorted sequence behind every element that is not after it
InsertInOrder(sorted, x) ==
  IF sorted = <<>> THEN <<x>>
  ELSE IF SortCompare(Head(sorted), x) <= 0
       THEN <<Head(sorted)>> \o InsertInOrder(Tail(sorted), x)
       ELSE <<x>> \o sorted

RECURSIVE StableSort(_)
StableSort(arr) ==
  IF arr = <<>> THEN <<>>
  ELSE InsertInOrder(StableSort(SubSeq(arr, 1, Len(arr) - 1)),
                     arr[Len(arr)])

\* the arrays arr.sort(compareEntries) may leave: the stable sorted order when the
\* comparator is consistent, and otherwise (the order is then
\* implementation-defined) any permutation of the elements
SortOutcomes(arr) ==
  IF ConsistentComparator(arr) THEN {StableSort(arr)}
  ELSE LET I == 1..Len(arr) IN
       {[i \in I |-> arr[p[i]]] : p \in {q \in [I -> I] : \A i, j \in I : i # j => q[i] # q[j]}}

---------------------------------------------------------------------------
(* Parser.ts: element lookup *)

RECURSIVE findByTag(_, _)
\* Array.from(nodes).find(e => e.nodeName === tagName)
findByTag(nodes, tagName) ==
  IF nodes = <<>> THEN undefined
  ELSE IF Head(nodes).nodeName = tagName THEN Head(nodes)
  ELSE findByTag(Tail(nodes), tagName)

\* Array.from(nodes).filter(e => e.nodeName === tagName)
filterByTag(nodes, tagName) ==
  LET matches(e) == e.nodeName = tagName IN SelectSeq(nodes, matches)

\* a lookup that searches the whole subtree
findChildTag_recursive(parent, tagName) == findByTag(Descendants(parent), tagName)

findChildTag(parent, tagName) == findByTag(children(parent), tagName)

filterChildTags(parent, tagName) == filterByTag(children(parent), tagName)

---------------------------------------------------------------------------
(* index.guard.ts: the generated type guards *)

\* obj is an AtomTextType: 'text', 'html' or 'xhtml'
isAtomTextType(obj) ==
  obj \in {String(<<"text">>), String(<<"html">>), String(<<"xhtml">>)}

\* obj is an AtomLinkRelType
isAtomLinkRelType(obj) ==
  obj \in {String(<<"alternate">>), String(<<"enclosure">>), String(<<"related">>),
           String(<<"self">>), String(<<"via">>)}

---------------------------------------------------------------------------
(* Parser.ts: sanitized accessors and the text construct decoder *)

\* a decoder that reads the text content whatever the type
safelyDecodeAtomText_textOnly(type, element) ==
  IF element # undefined THEN String(DOMPurify_sanitize(textContent(element)))
  ELSE String(<<>>)

safelyDecodeAtomText(type, element) ==
  IF element # undefined
  THEN IF type = String(<<"xhtml">>) THEN String(DOMPurify_sanitize(innerHTML(element)))
       ELSE IF type = String(<<"html">>) THEN String(DOMPurify_sanitize(textContent(element)))
       ELSE IF type = String(<<"text">>) THEN String(DOMPurify_sanitize(innerHTML(element)))
       ELSE String(DOMPurify_sanitize(textContent(element)))
  ELSE String(<<>>)

\* an accessor that returns the text content as it is
sanitizeTextContent_raw(element) ==
  IF element # undefined THEN String(textContent(element)) ELSE undefined

\* an accessor that reads the inner markup
sanitizeTextContent_markup(element) ==
  IF element # undefined THEN String(DOMPurify_sanitize(innerHTML(element)))
  ELSE undefined

sanitizeTextContent(element) ==
  IF element # undefined THEN String(DOMPurify_sanitize(textContent(element)))
  ELSE undefined

sanitizeTextAttribute(element, attributeName) ==
  IF element # undefined /\ getAttribute(element, attributeName) # null
  THEN getAttribute(element, attributeName)
  ELSE undefined

parseAtomContent(content) ==
  LET rawType == sanitizeTextAttribute(content, "type")
      type == IF isAtomTextType(rawType) THEN rawType ELSE undefined
  IN [type |-> type,
      src |-> sanitizeTextAttribute(content, "src"),
      value |-> safelyDecodeAtomText(type, content)]

parseAtomText(text) ==
  LET rawType == sanitizeTextAttribute(text, "type")
      type == IF isAtomTextType(rawType) THEN rawType ELSE undefined
  IN [type |-> type, value |-> safelyDecodeAtomText(type, text)]

---------------------------------------------------------------------------
(* Parser.ts: entity builders *)

\* new Date(element?.textContent ?? 0)
DateOfChild(element) ==
  Date(Coalesce(IF element = undefined THEN undefined ELSE String(textContent(element)),
                Num(0)))

parseAtomPerson(person) ==
  LET name == findChildTag(person, "name") IN
  [name |-> String(DOMPurify_sanitize(
              Coalesce(IF name = undefined THEN undefined ELSE String(textContent(name)),
                       String(<<>>)).s)),
   uri |-> sanitizeTextContent(findChildTag(person, "uri")),
   email |-> sanitizeTextContent(findChildTag(person, "email"))]

parseAtomLink(link) ==
  LET rawRel == sanitizeTextAttribute(link, "rel") IN
  [href |-> Coalesce(sanitizeTextAttribute(link, "href"), String(<<>>)),
   rel |-> IF isAtomLinkRelType(rawRel) THEN rawRel ELSE undefined,
   type |-> sanitizeTextAttribute(link, "type"),
   hreflang |-> sanitizeTextAttribute(link, "hreflang"),
   title |-> sanitizeTextAttribute(link, "title"),
   length |-> sanitizeTextAttribute(link, "length")]

parseAtomCategory(category) ==
  [term |-> Coalesce(sanitizeTextAttribute(category, "term"), String(<<>>)),
   scheme |-> Coalesce(sanitizeTextAttribute(category, "scheme"), undefined),
   label |-> Coalesce(sanitizeTextAttribute(category, "label"), undefined)]

parseAtomSource(source) ==
  IF source # undefined
  THEN [id |-> Coalesce(sanitizeTextContent(findChildTag(source, "id")), String(<<>>)),
        title |-> Coalesce(sanitizeTextContent(findChildTag(source, "title")), String(<<>>)),
        updated |-> DateOfChild(findChildTag(source, "title"))]
  ELSE undefined

parseAtomMediaLink(link) ==
  [url |-> Coalesce(sanitizeTextAttribute(link, "url"), String(<<>>)),
   type |-> sanitizeTextAttribute(link, "type"),
   width |-> Number(sanitizeTextAttribute(link, "width")),
   height |-> Number(sanitizeTextAttribute(link, "height"))]

parseAtomMediaCommunity(mediaCommunity) ==
  IF mediaCommunity # undefined
  THEN LET starRating == findChildTag(mediaCommunity, "media:starRating")
           statistics == findChildTag(mediaCommunity, "media:statistics")
       IN [starRating |-> [count |-> Number(sanitizeTextAttribute(starRating, "count")),
                           average |-> Number(sanitizeTextAttribute(starRating, "average")),
                           min |-> Number(sanitizeTextAttribute(starRating, "min")),
                           max |-> Number(sanitizeTextAttribute(starRating, "max"))],
           statistics |-> [view |-> Number(sanitizeTextAttribute(statistics, "views"))]]
  ELSE undefined

parseAtomMediaGroup(mediaGroup) ==
  IF mediaGroup # undefined
  THEN LET content == findChildTag(mediaGroup, "media:content")
           thumbnail == findChildTag(mediaGroup, "media:thumbnail")
       IN [title |-> Coalesce(sanitizeTextContent(findChildTag(mediaGroup, "media:title")),
                              String(<<>>)),
           content |-> IF content # undefined THEN parseAtomMediaLink(content) ELSE undefined,
           thumbnail |-> IF thumbnail # undefined THEN parseAtomMediaLink(thumbnail)
                         ELSE undefined,
           description |-> Coalesce(sanitizeTextContent(
                                      findChildTag(mediaGroup, "media:description")),
                                    String(<<>>)),
           community |-> parseAtomMediaCommunity(findChildTag(mediaGroup, "media:community"))]
  ELSE undefined

parseAtomEntry(entry) ==
  LET each(tagName) == filterChildTags(entry, tagName) IN
  [id |-> Coalesce(sanitizeTextContent(findChildTag(entry, "id")), String(<<>>)),
   title |-> parseAtomText(findChildTag(entry, "title")),
   updated |-> DateOfChild(findChildTag(entry, "updated")),
   author |-> [i \in 1..Len(each("author")) |-> parseAtomPerson(each("author")[i])],
   content |-> parseAtomContent(findChildTag(entry, "content")),
   rawContent |-> findChildTag(entry, "content"),
   link |-> [i \in 1..Len(each("link")) |-> parseAtomLink(each("link")[i])],
   summary |-> parseAtomText(findChildTag(entry, "summary")),
   category |-> [i \in 1..Len(each("category")) |-> parseAtomCategory(each("category")[i])],
   contributor |-> [i \in 1..Len(each("contributor")) |->
                      parseAtomPerson(each("contributor")[i])],
   published |-> IF findChildTag(entry, "published") # undefined
                 THEN DateOfChild(findChildTag(entry, "published")) ELSE undefined,
   rights |-> parseAtomText(findChildTag(entry, "rights")),
   source |-> parseAtomSource(findChildTag(entry, "source")),
   mediaGroup |-> parseAtomMediaGroup(findChildTag(entry, "media:group"))]

\* the outcomes of parseAtomFeed on the document DOMParser built from `data`:
\* a Feed returned (one per order the sort may leave), or the Error thrown
parseAtomFeed(xml) ==
  LET feed == findChildTag(xml, "feed")
      each(tagName) == filterChildTags(feed, tagName)
  IN IF feed # undefined
     THEN {[threw |-> FALSE,
            value |->
              [id |-> Coalesce(sanitizeTextContent(findChildTag(feed, "id")), String(<<>>)),
               title |-> parseAtomText(findChildTag(feed, "title")),
               updated |-> DateOfChild(findChildTag(feed, "updated")),
               entries |-> entries,
               author |-> [i \in 1..Len(each("author")) |->
                             parseAtomPerson(each("author")[i])],
               link |-> [i \in 1..Len(each("link")) |-> parseAtomLink(each("link")[i])],
               category |-> [i \in 1..Len(each("category")) |->
                               parseAtomCategory(each("category")[i])],
               contributor |-> [i \in 1..Len(each("contributor")) |->
                                  parseAtomPerson(each("contributor")[i])],
               generator |->
                 [value |-> Coalesce(sanitizeTextContent(findChildTag(feed, "generator")),
                                     String(<<>>)),
                  uri |-> sanitizeTextAttribute(findChildTag(feed, "generator"), "uri"),
                  version |-> sanitizeTextAttribute(findChildTag(feed, "generator"),
                                                    "version")],
               icon |-> sanitizeTextContent(findChildTag(feed, "icon")),
               logo |-> sanitizeTextContent(findChildTag(feed, "logo")),
               rights |-> parseAtomText(findChildTag(feed, "rights")),
               subtitle |-> sanitizeTextContent(findChildTag(feed, "subtitle"))]] :
           entries \in SortOutcomes([i \in 1..Len(each("entry")) |->
                                       parseAtomEntry(each("entry")[i])])}
     ELSE {[threw |-> TRUE, value |-> Error("No <feed> tag found.")]}

---------------------------------------------------------------------------
(* The inputs the calls are made with *)

Plain == <<Text(<<"a">>)>>
ScriptElement == Element("script", NoAttrs, Plain)
\* <div><script>a</script>a</div>
DivElement == Element("div", NoAttrs, <<ScriptElement, Text(<<"a">>)>>)

\* the nodes element content is made of: character data (a text node or a
\* CDATA section per lexeme) and child markup
ContentNodes ==
  {Text(<<c>>) : c \in {"a", "<script>", "</script>", "<br>"}}
    \cup {ScriptElement, DivElement, Element("br", NoAttrs, <<>>)}

Contents == SeqsUpTo(ContentNodes, MaxNodes)

DateContents ==
  {<<Text(<<d>>)>> : d \in {"1970-01-01", "2020-01-01", "2021-01-01", "2022-01-01"}}

\* the attributes of a text construct: no type, each known type, unknown ones
TypeAttrs ==
  {NoAttrs} \cup {[n \in {"type"} |-> <<ty>>] :
                    ty \in {"text", "html", "xhtml", "markdown", "HTML"}}

\* attribute values: harmless ones and one carrying a script element
AttrValues == {<<"a">>, <<"self">>, <<"<script>", "a", "</script>">>}

\* numeric attribute values: digits, white space, a letter
NumericValues == SeqsUpTo({"1", " ", "x"}, MaxAttrLen)

\* the elements whose content or attributes a generated feed varies
TextSlots ==
  {"feed/title", "feed/rights", "feed/subtitle", "entry/title", "entry/summary",
   "entry/rights", "entry/content"}
DateSlots == {"feed/updated", "entry/updated", "entry/published", "entry/source/updated"}
PlainSlots ==
  {"feed/id", "feed/icon", "feed/logo", "feed/generator", "feed/author/name",
   "feed/author/uri", "feed/author/email", "feed/contributor/name", "entry/id",
   "entry/author/name", "entry/author/uri", "entry/author/email",
   "entry/contributor/name", "entry/source/id", "entry/source/title",
   "entry/media:group/media:title", "entry/media:group/media:description"}
ContainerSlots == {"feed/entry", "entry/source", "entry/media:group", "feed/author"}
Slots == TextSlots \cup DateSlots \cup PlainSlots \cup ContainerSlots

\* a variation: the slot's element is left out, or is given attributes and content
Variations ==
  {[slot |-> sl, present |-> FALSE, attrs |-> NoAttrs, content |-> <<>>] : sl \in Slots}
    \cup {[slot |-> sl, present |-> TRUE, attrs |-> a, content |-> c] :
            sl \in TextSlots, a \in TypeAttrs, c \in Contents}
    \cup {[slot |-> sl, present |-> TRUE, attrs |-> NoAttrs, content |-> c] :
            sl \in PlainSlots, c \in Contents}
    \cup {[slot |-> sl, present |-> TRUE, attrs |-> NoAttrs, content |-> c] :
            sl \in DateSlots, c \in DateContents \cup {<<>>, Plain}}

\* the element at `path`: as the variation says when it is the slot, and else
\* with the default content
Leaf(v, path, name, default) ==
  IF v.slot = path
  THEN IF v.present THEN <<Element(name, v.attrs, v.content)>> ELSE <<>>
  ELSE <<Element(name, NoAttrs, default)>>

Container(v, path, name, childNodes) ==
  IF v.slot = path /\ ~v.present THEN <<>> ELSE <<Element(name, NoAttrs, childNodes)>>

PersonElement(v, path, name) ==
  Container(v, path, name,
            Leaf(v, path \o "/name", "name", Plain) \o Leaf(v, path \o "/uri", "uri", Plain)
              \o Leaf(v, path \o "/email", "email", Plain))

MediaGroupElement(v) ==
  Container(v, "entry/media:group", "media:group",
            Leaf(v, "entry/media:group/media:title", "media:title", Plain)
              \o <<Element("media:content",
                           [n \in {"url", "width"} |-> IF n = "url" THEN <<"a">> ELSE <<"1">>],
                           <<>>)>>
              \o Leaf(v, "entry/media:group/media:description", "media:description", Plain)
              \o <<Element("media:community", NoAttrs,
                           <<Element("media:starRating",
                                     [n \in {"count"} |-> <<"1", "2">>], <<>>)>>)>>)

SourceElement(v) ==
  Container(v, "entry/source", "source",
            Leaf(v, "entry/source/id", "id", Plain)
              \o Leaf(v, "entry/source/title", "title", Plain)
              \o Leaf(v, "entry/source/updated", "updated", <<Text(<<"2020-01-01">>)>>))

LinkElement == Element("link", [n \in {"href", "rel"} |-> <<"self">>], <<>>)
CategoryElement == Element("category", [n \in {"term"} |-> <<"a">>], <<>>)

EntryElement(v) ==
  Element("entry", NoAttrs,
          Leaf(v, "entry/id", "id", Plain)
            \o Leaf(v, "entry/title", "title", Plain)
            \o Leaf(v, "entry/updated", "updated", <<Text(<<"2021-01-01">>)>>)
            \o PersonElement(v, "entry/author", "author")
            \o Leaf(v, "entry/content", "content", Plain)
            \o <<LinkElement>>
            \o Leaf(v, "entry/summary", "summary", Plain)
            \o <<CategoryElement>>
            \o PersonElement(v, "entry/contributor", "contributor")
            \o Leaf(v, "entry/published", "published", <<Text(<<"2020-01-01">>)>>)
            \o Leaf(v, "entry/rights", "rights", Plain)
            \o SourceElement(v)
            \o MediaGroupElement(v))

FeedElement(v) ==
  Element("feed", NoAttrs,
          Leaf(v, "feed/id", "id", Plain)
            \o Leaf(v, "feed/title", "title", Plain)
            \o Leaf(v, "feed/updated", "updated", <<Text(<<"2022-01-01">>)>>)
            \o (IF v.slot = "feed/entry" /\ ~v.present THEN <<>> ELSE <<EntryElement(v)>>)
            \o PersonElement(v, "feed/author", "author")
            \o <<LinkElement, CategoryElement>>
            \o PersonElement(v, "feed/contributor", "contributor")
            \o Leaf(v, "feed/generator", "generator", Plain)
            \o Leaf(v, "feed/icon", "icon", Plain)
            \o Leaf(v, "feed/logo", "logo", Plain)
            \o Leaf(v, "feed/rights", "rights", Plain)
            \o Leaf(v, "feed/subtitle", "subtitle", Plain))

\* what `updated` an entry of a generated feed carries: none, a date, no date
UpdatedContents ==
  {<<>>, Plain, <<Text(<<"2020-01-01">>)>>, <<Text(<<"2021-01-01">>)>>,
   <<Text(<<"2022-01-01">>)>>}

\* the entry numbered i with the given `updated` (<<>>: without the element)
DatedEntry(i, updated) ==
  Element("entry", NoAttrs,
          <<Element("id", NoAttrs, <<Text(<<ToString(i)>>)>>)>>
            \o (IF updated = <<>> THEN <<>> ELSE <<Element("updated", NoAttrs, updated)>>))

DatedFeeds ==
  {Element("feed", NoAttrs, [i \in 1..Len(us) |-> DatedEntry(i, us[i])]) :
     us \in SeqsUpTo(UpdatedContents, MaxEntries)}

\* the root elements DOMParser may hand over: a feed, a feed that lacks every
\* optional element, other vocabularies (one holding a feed further down),
\* names that differ from 'feed' in case or prefix, and a parser error
Roots ==
  {FeedElement(v) : v \in Variations} \cup DatedFeeds
    \cup {Element(name, NoAttrs, c) :
            name \in {"rss", "parsererror", "Feed", "atom:feed", "html"},
            c \in {<<>>, Plain, <<Element("feed", NoAttrs, <<>>)>>,
                   <<Element("channel", NoAttrs, <<Element("feed", NoAttrs, Plain)>>)>>}}

Document(root) == [nodeName |-> "#document", childNodes |-> <<root>>]
Documents == {Document(root) : root \in Roots}


\* text constructs and content elements: every type attribute over every content
TextElements == {Element("title", a, c) : a \in TypeAttrs, c \in Contents}

ContentElements ==
  {Element("content", a, c) : a \in TypeAttrs, c \in Contents}
    \cup {Element("content", [n \in {"type", "src"} |-> IF n = "type" THEN <<"html">> ELSE src],
                  <<>>) : src \in AttrValues}

EntryElements == {EntryElement(v) : v \in Variations}

\* elements that carry any subset of the given attributes, all with one value
WithAttrs(name, attributeNames) ==
  {Element(name, [n \in S |-> val], <<>>) : S \in SUBSET attributeNames, val \in AttrValues}

LinkElements == WithAttrs("link", {"href", "rel", "type", "hreflang", "title", "length"})
CategoryElements == WithAttrs("category", {"term", "scheme", "label"})

PersonElements ==
  {Element("author", NoAttrs, kids) :
     kids \in SeqsUpTo({Element(n, NoAttrs, c) : n \in {"name", "uri"},
                                                 c \in {<<>>, Plain, <<ScriptElement>>,
                                                        <<Text(<<"<script>">>)>>}},
                       MaxNodes)}

\* a <source> with or without each of id, title and updated
SourceParts ==
  {<<>>} \cup {<<Text(<<d>>)>> : d \in {"a", "2020-01-01", "2021-01-01", "<script>"}}
SourceElements ==
  {Element("source", NoAttrs,
           Concat([i \in 1..3 |->
                     IF parts[i] = <<>> THEN <<>>
                     ELSE <<Element(<<"id", "title", "updated">>[i], NoAttrs, parts[i])>>])) :
     parts \in [1..3 -> SourceParts]}

\* a media link with or without url, width and height
MediaLinkElements ==
  {Element("media:content", a, <<>>) :
     a \in UNION {[S -> NumericValues] : S \in SUBSET {"width", "height"}}}
    \cup WithAttrs("media:thumbnail", {"url", "type"})

StarRatingElements ==
  {Element("media:starRating", [n \in S |-> val], <<>>) :
     S \in {{}, {"count"}, {"average"}, {"min"}, {"max"}, {"count", "average", "min", "max"}},
     val \in NumericValues}
StatisticsElements ==
  {Element("media:statistics", [n \in S |-> val], <<>>) :
     S \in {{}, {"views"}, {"view"}}, val \in NumericValues}
MediaCommunityElements ==
  {Element("media:community", NoAttrs, sr \o st) :
     sr \in {<<>>} \cup {<<e>> : e \in StarRatingElements},
     st \in {<<>>} \cup {<<e>> : e \in StatisticsElements}}

MediaGroupElements ==
  {Element("media:group", NoAttrs, kids) :
     kids \in SeqsUpTo({Element("media:title", NoAttrs, <<Text(<<"<script>">>)>>),
                        Element("media:description", NoAttrs, <<ScriptElement>>),
                        Element("media:content", [n \in {"width"} |-> <<"1">>], <<>>),
                        Element("media:thumbnail", NoAttrs, <<>>),
                        Element("media:community", NoAttrs, <<>>)},
                       MaxNodes)}

\* the children of a parent an element is looked up in: titles with different
\* texts, at the top and inside a media:group and a source, and other nodes
Kids ==
  {Text(<<"a">>),
   Element("title", NoAttrs, <<Text(<<"1">>)>>),
   Element("title", NoAttrs, <<Text(<<"2">>)>>),
   Element("media:group", NoAttrs, <<Element("title", NoAttrs, <<Text(<<"x">>)>>)>>),
   Element("source", NoAttrs, <<Element("title", NoAttrs, <<Text(<<" ">>)>>),
                                Element("entry", NoAttrs, <<>>)>>),
   Element("Title", NoAttrs, Plain)}
Parents == {Element("entry", NoAttrs, kids) : kids \in SeqsUpTo(Kids, MaxKids)}
TagNames == {"title", "entry", "media:group", "source"}

---------------------------------------------------------------------------
(* One call of one of the module's functions *)

Init ==
  /\ pc = "idle"
  /\ call = [fn |-> "none"]
  /\ ret = undefined

Returns(fn, arg, value) ==
  /\ call' = [fn |-> fn, arg |-> arg]
  /\ ret' = value
  /\ pc' = "returned"

Call_parseAtomFeed ==
  /\ pc = "idle"
  /\ \E xml \in Documents : \E out \in parseAtomFeed(xml) :
       /\ call' = [fn |-> "parseAtomFeed", arg |-> xml]
       /\ ret' = out.value
       /\ \/ ~out.threw /\ pc' = "returned"
          \/ out.threw /\ pc' = "thrown"

Call_parseAtomEntry ==
  /\ pc = "idle"
  /\ \E entry \in EntryElements \cup Parents :
       Returns("parseAtomEntry", entry, parseAtomEntry(entry))

Call_parseAtomText ==
  /\ pc = "idle"
  /\ \E text \in TextElements \cup {undefined} :
       Returns("parseAtomText", text, parseAtomText(text))

Call_parseAtomContent ==
  /\ pc = "idle"
  /\ \E content \in ContentElements \cup {undefined} :
       Returns("parseAtomContent", content, parseAtomContent(content))

Call_parseAtomPerson ==
  /\ pc = "idle"
  /\ \E person \in PersonElements :
       Returns("parseAtomPerson", person, parseAtomPerson(person))

Call_parseAtomLink ==
  /\ pc = "idle"
  /\ \E link \in LinkElements : Returns("parseAtomLink", link, parseAtomLink(link))

Call_parseAtomCategory ==
  /\ pc = "idle"
  /\ \E category \in CategoryElements :
       Returns("parseAtomCategory", category, parseAtomCategory(category))

Call_parseAtomSource ==
  /\ pc = "idle"
  /\ \E source \in SourceElements \cup {undefined} :
       Returns("parseAtomSource", source, parseAtomSource(source))

Call_parseAtomMediaGroup ==
  /\ pc = "idle"
  /\ \E mediaGroup \in MediaGroupElements \cup {undefined} :
       Returns("parseAtomMediaGroup", mediaGroup, parseAtomMediaGroup(mediaGroup))

Call_parseAtomMediaCommunity ==
  /\ pc = "idle"
  /\ \E mediaCommunity \in MediaCommunityElements \cup {undefined} :
       Returns("parseAtomMediaCommunity", mediaCommunity,
               parseAtomMediaCommunity(mediaCommunity))

Call_parseAtomMediaLink ==
  /\ pc = "idle"
  /\ \E link \in MediaLinkElements :
       Returns("parseAtomMediaLink", link, parseAtomMediaLink(link))

Call_findChildTag ==
  /\ pc = "idle"
  /\ \E parent \in Parents, tagName \in TagNames :
       /\ call' = [fn |-> "findChildTag", arg |-> parent, tagName |-> tagName]
       /\ ret' = findChildTag(parent, tagName)
       /\ pc' = "returned"

Call_filterChildTags ==
  /\ pc = "idle"
  /\ \E parent \in Parents, tagName \in TagNames :
       /\ call' = [fn |-> "filterChildTags", arg |-> parent, tagName |-> tagName]
       /\ ret' = filterChildTags(parent, tagName)
       /\ pc' = "returned"

Next ==
  \/ Call_parseAtomFeed
  \/ Call_parseAtomEntry
  \/ Call_parseAtomText
  \/ Call_parseAtomContent
  \/ Call_parseAtomPerson
  \/ Call_parseAtomLink
  \/ Call_parseAtomCategory
  \/ Call_parseAtomSource
  \/ Call_parseAtomMediaGroup
  \/ Call_parseAtomMediaCommunity
  \/ Call_parseAtomMediaLink
  \/ Call_findChildTag
  \/ Call_filterChildTags

Spec == Init /\ [][Next]_vars

---------------------------------------------------------------------------
(* What the claims are stated with *)

Returned(fn) == pc = "returned" /\ call.fn = fn

\* the positions of the direct children of `parent` named tagName
Positions(parent, tagName) ==
  {i \in 1..Len(parent.childNodes) : parent.childNodes[i].nodeName = tagName}

HasChild(parent, tagName) == Positions(parent, tagName) # {}

\* the first direct child named tagName (there is one)
FirstChild(parent, tagName) ==
  parent.childNodes[CHOOSE i \in Positions(parent, tagName) :
                      \A j \in Positions(parent, tagName) : i <= j]

HasLexeme(s, c) == \E i \in 1..Len(s) : s[i] = c

\* the value of attribute n of an element written out, <<"(none)">> without it
RawAttr(element, n) ==
  IF n \in DOMAIN element.attrs THEN element.attrs[n] ELSE <<"(none)">>

\* the Text Construct the decoding table gives for an element (or undefined):
\* the type when it is one of text, html, xhtml, and the sanitized inner
\* markup (xhtml, text) or text content (html, anything else)
TextConstructOf(el) ==
  IF el = undefined THEN [type |-> undefined, value |-> String(<<>>)]
  ELSE LET raw == RawAttr(el, "type") IN
       CASE raw \in {<<"xhtml">>, <<"text">>} ->
              [type |-> String(raw), value |-> String(DOMPurify_sanitize(innerHTML(el)))]
         [] raw = <<"html">> ->
              [type |-> String(raw), value |-> String(DOMPurify_sanitize(textContent(el)))]
         [] OTHER ->
              [type |-> undefined, value |-> String(DOMPurify_sanitize(textContent(el)))]

\* the child as findChildTag should hand it over
ChildOrUndefined(parent, tagName) ==
  IF HasChild(parent, tagName) THEN FirstChild(parent, tagName) ELSE undefined

FeedFields ==
  {"id", "title", "updated", "entries", "author", "link", "category", "contributor",
   "generator", "icon", "logo", "rights", "subtitle"}

---------------------------------------------------------------------------
(* C1 *)

\* C1: parseAtomFeed throws Error('No <feed> tag found.') exactly when no
\* direct child of the document is named 'feed'; in every other case it
\* returns a Feed record, whatever is missing below the root.
C1_FatalIffNoFeedRoot ==
  call.fn = "parseAtomFeed" =>
    /\ pc \in {"returned", "thrown"}
    /\ pc = "thrown" <=> ~HasChild(call.arg, "feed")
    /\ pc = "thrown" => ret = Error("No <feed> tag found.")
    /\ pc = "returned" => DOMAIN ret = FeedFields

\* a document whose root is not a feed but holds one further down: thrown
C1_Witness ==
  /\ call.fn = "parseAtomFeed" /\ pc = "thrown"
  /\ HasChild(call.arg.childNodes[1], "feed")

---------------------------------------------------------------------------
(* C2 *)

\* C2: parseAtomText and parseAtomContent map the raw type attribute to
\* (type, value): 'xhtml' and 'text' keep the type and sanitize the inner
\* markup, 'html' keeps the type and sanitizes the text content, any other or
\* no type gives type undefined and the sanitized text content, an absent
\* element gives type undefined and the empty string; so every value is an
\* output of the sanitizer.
C2_TextConstructTable ==
  (pc = "returned" /\ call.fn \in {"parseAtomText", "parseAtomContent"}) =>
    /\ ret.type = TextConstructOf(call.arg).type
    /\ ret.value = TextConstructOf(call.arg).value
    /\ \E dirty \in {<<>>} \cup (IF call.arg = undefined THEN {}
                                  ELSE {innerHTML(call.arg), textContent(call.arg)}) :
         ret.value = String(DOMPurify_sanitize(dirty))

\* an xhtml construct whose inner markup differs from its text content and
\* holds a script the sanitizer had to remove
C2_Witness ==
  /\ Returned("parseAtomText") /\ call.arg # undefined
  /\ RawAttr(call.arg, "type") = <<"xhtml">>
  /\ HasLexeme(innerHTML(call.arg), "<script>")
  /\ DOMPurify_sanitize(innerHTML(call.arg)) # DOMPurify_sanitize(textContent(call.arg))
  /\ ret.value.s # <<>>

---------------------------------------------------------------------------
(* C3 *)

PersonStrings(person) == {person.name, person.uri, person.email}

EntryStrings(entry) ==
  {entry.id, entry.title.value, entry.rights.value, entry.summary.value,
   entry.content.value}
    \cup UNION {PersonStrings(entry.author[i]) : i \in 1..Len(entry.author)}
    \cup UNION {PersonStrings(entry.contributor[i]) : i \in 1..Len(entry.contributor)}
    \cup (IF entry.source = undefined THEN {} ELSE {entry.source.id, entry.source.title})
    \cup (IF entry.mediaGroup = undefined THEN {}
          ELSE {entry.mediaGroup.title, entry.mediaGroup.description})

\* the string fields of a Feed that are derived from element content
FeedStrings(feed) ==
  {feed.id, feed.title.value, feed.rights.value, feed.subtitle, feed.icon, feed.logo,
   feed.generator.value}
    \cup UNION {PersonStrings(feed.author[i]) : i \in 1..Len(feed.author)}
    \cup UNION {PersonStrings(feed.contributor[i]) : i \in 1..Len(feed.contributor)}
    \cup UNION {EntryStrings(feed.entries[i]) : i \in 1..Len(feed.entries)}

\* C3: in every Feed parseAtomFeed returns, every string derived from element
\* content is an output of the sanitizer: it holds no script tag and the
\* sanitizer leaves it as it is.
C3_ContentFieldsSanitized ==
  Returned("parseAtomFeed") =>
    \A v \in FeedStrings(ret) :
      v # undefined =>
        /\ v.t = "string"
        /\ ~HasLexeme(v.s, "<script>")
        /\ DOMPurify_sanitize(v.s) = v.s

\* a feed with a script in its character data or as child markup, returned
C3_Witness ==
  /\ Returned("parseAtomFeed")
  /\ \/ HasLexeme(textContent(call.arg.childNodes[1]), "<script>")
     \/ HasLexeme(innerHTML(call.arg.childNodes[1]), "<script>")
  /\ Len(ret.entries) > 0

---------------------------------------------------------------------------
(* C4 *)

\* date a is earlier than date b (an invalid date is earlier than nothing)
Earlier(a, b) == ~a.time.nan /\ ~b.time.nan /\ a.time.n < b.time.n

\* C4: the entries of every Feed parseAtomFeed returns are sorted by updated,
\* descending: no entry is earlier than one behind it, whatever the updated
\* elements hold.
C4_EntriesSortedDescending ==
  Returned("parseAtomFeed") =>
    \A i, j \in 1..Len(ret.entries) :
      i < j => ~Earlier(ret.entries[i].updated, ret.entries[j].updated)

\* the same for the feeds whose entries all have a valid or no updated date
EntriesSortedWhenDatesValid ==
  (Returned("parseAtomFeed")
     /\ \A i \in 1..Len(ret.entries) : ~ret.entries[i].updated.time.nan) =>
    \A i, j \in 1..Len(ret.entries) :
      i < j => ret.entries[i].updated.time.n >= ret.entries[j].updated.time.n

---------------------------------------------------------------------------
(* C5 *)

\* v is undefined or a string the sanitizer leaves as it is
Sanitized(v) == v = undefined \/ (v.t = "string" /\ DOMPurify_sanitize(v.s) = v.s)

\* C5: every string field derived from an attribute has passed the
\* sanitizer: it holds nothing the sanitizer would remove or change.
C5_AttributeFieldsSanitized ==
  /\ Returned("parseAtomLink") =>
       /\ Sanitized(ret.href) /\ Sanitized(ret.type) /\ Sanitized(ret.hreflang)
       /\ Sanitized(ret.title) /\ Sanitized(ret.length)
  /\ Returned("parseAtomCategory") =>
       Sanitized(ret.term) /\ Sanitized(ret.scheme) /\ Sanitized(ret.label)
  /\ Returned("parseAtomContent") => Sanitized(ret.src)
  /\ Returned("parseAtomMediaLink") => Sanitized(ret.url) /\ Sanitized(ret.type)
  /\ Returned("parseAtomFeed") =>
       Sanitized(ret.generator.uri) /\ Sanitized(ret.generator.version)

---------------------------------------------------------------------------
(* C6 *)

\* the time value C6 gives: that of the date in the direct updated child, and
\* the epoch without the child or without a date in it
UpdatedOrEpoch(parent) ==
  IF ~HasChild(parent, "updated") THEN Num(0)
  ELSE LET time == DateParse(textContent(FirstChild(parent, "updated"))) IN
       IF time.nan THEN Num(0) ELSE time

\* C6: updated of the Feed and of an Entry is the date parsed from the direct
\* updated child, and the epoch when the child is absent or holds no date.
C6_UpdatedIsDateOrEpoch ==
  /\ Returned("parseAtomFeed") =>
       ret.updated.time = UpdatedOrEpoch(FirstChild(call.arg, "feed"))
  /\ Returned("parseAtomEntry") => ret.updated.time = UpdatedOrEpoch(call.arg)

\* the part of C6 that the code keeps: the parsed time value of the updated
\* child, NaN included, and the epoch without the child
UpdatedAsParsed ==
  LET time(parent) ==
        IF ~HasChild(parent, "updated") THEN Num(0)
        ELSE DateParse(textContent(FirstChild(parent, "updated")))
  IN /\ Returned("parseAtomFeed") => ret.updated.time = time(FirstChild(call.arg, "feed"))
     /\ Returned("parseAtomEntry") => ret.updated.time = time(call.arg)

---------------------------------------------------------------------------
(* C7 *)

\* the time value of the date in the source's direct updated child
SourceUpdated(source) ==
  IF ~HasChild(source, "updated") THEN Num(0)
  ELSE DateParse(textContent(FirstChild(source, "updated")))

\* C7: updated of a Source is the date parsed from the source's direct
\* updated child, the epoch without one, whatever its title and id are.
C7_SourceUpdatedFromUpdated ==
  /\ (Returned("parseAtomSource") /\ call.arg # undefined) =>
       ret.updated.time = SourceUpdated(call.arg)
  /\ (Returned("parseAtomEntry") /\ HasChild(call.arg, "source")) =>
       ret.source.updated.time = SourceUpdated(FirstChild(call.arg, "source"))

---------------------------------------------------------------------------
(* C8 *)

Trimmed(s) == TrimRight(TrimLeft(s))

\* the number C8 gives for attribute n of an element (or undefined): NaN
\* without the element, without the attribute and for a value that is no
\* number, an empty or white-space value included; the value otherwise
NumberOrNaN(element, n) ==
  IF element = undefined THEN NaN
  ELSE IF n \notin DOMAIN element.attrs THEN NaN
  ELSE LET str == Trimmed(element.attrs[n]) IN
       IF str # <<>> /\ \A i \in 1..Len(str) : IsDigit(str[i])
       THEN Num(DecimalValue(str)) ELSE NaN

\* C8: every numeric media field is NaN when its attribute or element is
\* absent or the value is no valid number (empty and white-space-only values
\* included), and the attribute's numeric value otherwise.
C8_NumericFieldsNaNUnlessNumber ==
  /\ Returned("parseAtomMediaLink") =>
       /\ ret.width = NumberOrNaN(call.arg, "width")
       /\ ret.height = NumberOrNaN(call.arg, "height")
  /\ (Returned("parseAtomMediaCommunity") /\ call.arg # undefined) =>
       LET starRating == ChildOrUndefined(call.arg, "media:starRating")
           statistics == ChildOrUndefined(call.arg, "media:statistics")
       IN /\ ret.starRating.count = NumberOrNaN(starRating, "count")
          /\ ret.starRating.average = NumberOrNaN(starRating, "average")
          /\ ret.starRating.min = NumberOrNaN(starRating, "min")
          /\ ret.starRating.max = NumberOrNaN(starRating, "max")
          /\ ret.statistics.view = NumberOrNaN(statistics, "views")

---------------------------------------------------------------------------
(* C9 *)

\* the k-th position, in document order, of a direct child named tagName
KthPosition(parent, tagName, k) ==
  CHOOSE i \in Positions(parent, tagName) :
    Cardinality({j \in Positions(parent, tagName) : j <= i}) = k

\* C9: findChildTag returns the first direct child with the tag name and
\* undefined when no direct child has it; filterChildTags returns the direct
\* children with the name, in document order; so the title of an entry is
\* that of its first direct title child and empty without one, whatever
\* titles lie deeper.
C9_DirectChildrenOnly ==
  /\ Returned("findChildTag") =>
       ret = ChildOrUndefined(call.arg, call.tagName)
  /\ Returned("filterChildTags") =>
       /\ Len(ret) = Cardinality(Positions(call.arg, call.tagName))
       /\ \A k \in 1..Len(ret) :
            ret[k] = call.arg.childNodes[KthPosition(call.arg, call.tagName, k)]
  /\ Returned("parseAtomEntry") =>
       IF ~HasChild(call.arg, "title") THEN ret.title.value = String(<<>>)
       ELSE "type" \notin DOMAIN FirstChild(call.arg, "title").attrs =>
              ret.title.value =
                String(DOMPurify_sanitize(textContent(FirstChild(call.arg, "title"))))

\* a lookup of 'title' in a parent that has the name only further down
C9_Witness ==
  /\ Returned("findChildTag") /\ call.tagName = "title"
  /\ ~HasChild(call.arg, "title")
  /\ findByTag(Descendants(call.arg), "title") # undefined
  /\ ret = undefined

---------------------------------------------------------------------------
(* C10 *)

\* C10 as stated: subtitle of the Feed is a Text Construct, its type
\* validated and its value decoded by the declared type.
C10_SubtitleIsTextConstruct ==
  Returned("parseAtomFeed") =>
    ret.subtitle = TextConstructOf(ChildOrUndefined(FirstChild(call.arg, "feed"), "subtitle"))

\* C10 amended: subtitle of the Feed is a plain string, the sanitized text
\* content of the direct subtitle child whatever its type attribute, and
\* undefined without the child.
C10_SubtitleIsSanitizedText ==
  Returned("parseAtomFeed") =>
    LET feed == FirstChild(call.arg, "feed") IN
    ret.subtitle = IF HasChild(feed, "subtitle")
                   THEN String(DOMPurify_sanitize(textContent(FirstChild(feed, "subtitle"))))
                   ELSE undefined

\* a subtitle declared xhtml whose inner markup is not its text content
C10_Witness ==
  /\ Returned("parseAtomFeed")
  /\ LET feed == FirstChild(call.arg, "feed") IN
     /\ HasChild(feed, "subtitle")
     /\ RawAttr(FirstChild(feed, "subtitle"), "type") = <<"xhtml">>
     /\ DOMPurify_sanitize(innerHTML(FirstChild(feed, "subtitle")))
          # DOMPurify_sanitize(textContent(FirstChild(feed, "subtitle")))
     /\ ret.subtitle.s # <<>>

=============================================================================
